---- MODULE Spec2Model ----
(***************************************************************************)
(* Batch embedding pipeline of data_pipeline/1_generate_embeddings_        *)
(* OpenRouter.py: the retry loop of get_embeddings, the driver loop over   *)
(* the batches and the post-processing that follows it.                    *)
(*                                                                         *)
(* Records are numbered 0 .. total_reviews-1 as in the script.  A vector   *)
(* is [rec, dim, x]: the record at whose position of the request the       *)
(* remote endpoint returned it (NoRecord when the response carried more    *)
(* items than the request had inputs), its number of components and the    *)
(* components.  Components are whole multiples of a quantum of 0.5e-10, so *)
(* that 1e-10 is the number 2 and a norm below it exists; norms are kept   *)
(* squared, which avoids square roots.                                     *)
(***************************************************************************)
EXTENDS Integers, Sequences, FiniteSets, TLC

\* Bounds of the model.
MaxRecords == 7
MaxBatchSize == 2
MaxRetries == 3
\* The endpoint answers at most this many batches of one run with vectors.
MaxOkBatches == 2
\* Runs that vary the components: records, and the largest component.
MaxNormRecords == 2
\* Runs that count the requests: records of the runs with more than one attempt.
MaxCountRecords == 3
MaxComponent == 3

\* norm[norm == 0] = 1e-10, in quanta
EPSILON == 2

\* `if failed_batches > 5`
MAX_FAILED_BATCHES == 5

\* Dimensionalities the endpoint may answer with.
Dims == {1, 2}
\* Components the endpoint may answer with: any, and one that stands for all
\* where only the flow of the script matters.
Values == 0..MaxComponent
PlainValues == {1}
\* the embeddings of that many components with components from vals
Embeddings(vals) == UNION {[1..d -> vals] : d \in Dims}
\* len(result['data']) - len(texts): the script never compares the two.
CountDeltas == {-1, 0, 1}
\* Causes of an exception inside the try block of get_embeddings.
ExceptionCauses == {"network", "error_payload", "malformed"}

NoRecord == 0 - 1

VARIABLES
    total_reviews,          \* len(df)
    BATCH_SIZE,
    retries,                \* parameter of get_embeddings
    pc,                     \* position of the script
    i,                      \* loop variable of the processing loop
    attempt,                \* loop variable of get_embeddings
    reqs,                   \* requests.post calls of the current get_embeddings call
    waits,                  \* time.sleep arguments of the current call, in order
    errs,                   \* what each failed attempt of the current call printed
    exc,                    \* exception propagating out of get_embeddings
    batch_embs,             \* value returned by get_embeddings
    embeddings_list,
    failed_batches,
    failed_log,             \* the i of every "Failed batch {i}" line printed
    ok_log,                 \* the i of every batch get_embeddings returned for
    requested,              \* the i of every batch a request was posted for
    counting,               \* whether the requests of the run are counted
    total_requests,         \* requests.post calls of the run, when counted
    embeddings_normalized   \* the array handed to np.save

vars == <<total_reviews, BATCH_SIZE, retries, counting, total_requests, pc, i, attempt, reqs, waits, errs,
          exc, batch_embs, embeddings_list, failed_batches, failed_log, ok_log,
          requested, embeddings_normalized>>

config == <<total_reviews, BATCH_SIZE, retries, counting>>
locals == <<attempt, reqs, waits, errs>>

\* the error of the last failed attempt of the current call
lastErr == IF errs = <<>> THEN "none" ELSE errs[Len(errs)]

RECURSIVE Pow2(_)
Pow2(k) == IF k <= 0 THEN 1 ELSE 2 * Pow2(k - 1)

Min(a, b) == IF a < b THEN a ELSE b

\* len(texts[start:start+BATCH_SIZE])
BatchLen_NoClip(start) == BATCH_SIZE
BatchLen(start) == Min(BATCH_SIZE, total_reviews - start)

\* [item['embedding'] for item in result['data']] for a response of `count`
\* items, each the embedding x, answering the batch that starts at `start`.
ExtractEmbeddings(start, count, x) ==
    [j \in 1..count |->
        [rec |-> IF j <= BatchLen(start) THEN start + j - 1 ELSE NoRecord,
         dim |-> Len(x),
         x |-> x]]

\* np.linalg.norm(embeddings, axis=1, keepdims=True), squared
RECURSIVE Norm2(_)
Norm2(x) == IF x = <<>> THEN 0 ELSE x[1] * x[1] + Norm2(Tail(x))

\* norm[norm == 0] = 1e-10: the divisor of a row whose norm squared is n2, squared
Divisor2_NoGuard(n2) == n2
Divisor2_AtMostEpsilon(n2) == IF n2 <= EPSILON * EPSILON THEN EPSILON * EPSILON ELSE n2
Divisor2(n2) == IF n2 = 0 THEN EPSILON * EPSILON ELSE n2

\* embeddings / norm: row v of the result has the components
\* num[j] / sqrt(den2)
NormalizedRow(v) ==
    [rec |-> v.rec, dim |-> v.dim, num |-> v.x, den2 |-> Divisor2(Norm2(v.x))]

\* sleep_time = 2 ** attempt
SleepRateLimit_Doubled(a) == 2 * a
SleepRateLimit_ByCount(a) ==
    Pow2(Cardinality({k \in 1..Len(errs) : errs[k] = "rate_limit"}))
SleepRateLimit(a) == Pow2(a)

\* time.sleep(2) of the else branch and of the except branch
SleepOther_Backoff == Pow2(attempt)
SleepOther == 2

\* raise Exception("Max retries reached")
RaisedMessage_LastError == lastErr
RaisedMessage == "Max retries reached"

\* for attempt in range(retries): where control is after attempt a-1 failed
AfterFailedAttempt_OneMore(a) == IF a < retries + 1 THEN "attempt" ELSE "raised"
AfterFailedAttempt(a) == IF a < retries THEN "attempt" ELSE "raised"

\* if failed_batches > 5
TooManyFailures_AtLimit(f) == f >= MAX_FAILED_BATCHES
TooManyFailures_OffByOne(f) == f > MAX_FAILED_BATCHES + 1
TooManyFailures(f) == f > MAX_FAILED_BATCHES

\* print(f"Failed batch {i}: {e}"): the lines printed so far, then the new one
LogFailure_Prepend(log, b) == <<b>> \o log
LogFailure(log, b) == Append(log, b)

\* return [...]: where control is after an attempt that got vectors
AfterOkAttempt_KeepLooping == "attempt"
AfterOkAttempt == "returned"

\* if len(embeddings_list) == 0
NoEmbeddingsGenerated_Never == Len(embeddings_list) < 0
NoEmbeddingsGenerated == Len(embeddings_list) = 0

\* np.array(embeddings_list, dtype=np.float32) raises ValueError on rows of
\* different lengths.
Ragged(list) == \E a, b \in 1..Len(list) : list[a].dim # list[b].dim

\* The state before the processing loop; c: whether requests are counted.
Start(c) ==
    /\ total_reviews \in 0..MaxRecords
    /\ BATCH_SIZE \in 1..MaxBatchSize
    /\ retries \in 1..MaxRetries
    /\ pc = "loop"
    /\ i = 0
    /\ attempt = 0
    /\ reqs = 0
    /\ waits = <<>>
    /\ errs = <<>>
    /\ exc = "none"
    /\ batch_embs = <<>>
    /\ embeddings_list = <<>>
    /\ failed_batches = 0
    /\ failed_log = <<>>
    /\ ok_log = <<>>
    /\ requested = {}
    /\ counting = c
    /\ total_requests = 0
    /\ embeddings_normalized = <<>>

Init == Start(FALSE)

\* for i in range(0, total_reviews, BATCH_SIZE): batch_texts = texts[i:i+BATCH_SIZE];
\* get_embeddings(batch_texts, MODEL_ID) is entered.
Dispatch ==
    /\ pc = "loop"
    /\ i < total_reviews
    /\ pc' = "attempt"
    /\ attempt' = 0
    /\ reqs' = 0
    /\ waits' = <<>>
    /\ errs' = <<>>
    /\ UNCHANGED <<config, i, exc, batch_embs, embeddings_list, failed_batches,
                   failed_log, ok_log, requested, total_requests, embeddings_normalized>>

\* What every failed attempt does after its sleep: the for loop of
\* get_embeddings goes on, or ends and the raise after it is reached.
FailedAttempt(kind, secs) ==
    /\ pc = "attempt"
    /\ reqs' = reqs + 1
    /\ requested' = requested \cup {i}
    /\ total_requests' = IF counting THEN total_requests + 1 ELSE total_requests
    /\ errs' = Append(errs, kind)
    /\ waits' = Append(waits, secs)
    /\ attempt' = attempt + 1
    /\ pc' = AfterFailedAttempt(attempt + 1)
    /\ exc' = IF AfterFailedAttempt(attempt + 1) = "raised" THEN RaisedMessage ELSE "none"
    /\ UNCHANGED <<config, i, batch_embs, embeddings_list, failed_batches,
                   failed_log, ok_log, embeddings_normalized>>

\* status 200, no 'error' key, a data list of `count` items: return.
AttemptOk(delta, x) ==
    /\ pc = "attempt"
    /\ Len(ok_log) < MaxOkBatches
    /\ BatchLen(i) + delta >= 0
    /\ reqs' = reqs + 1
    /\ requested' = requested \cup {i}
    /\ total_requests' = IF counting THEN total_requests + 1 ELSE total_requests
    /\ batch_embs' = ExtractEmbeddings(i, BatchLen(i) + delta, x)
    /\ pc' = AfterOkAttempt
    /\ UNCHANGED <<config, i, attempt, waits, errs, exc, embeddings_list,
                   failed_batches, failed_log, ok_log, embeddings_normalized>>

\* status 429
AttemptRateLimited == FailedAttempt("rate_limit", SleepRateLimit(attempt))

\* any other status
AttemptStatusError == FailedAttempt("status", SleepOther)

\* requests.post raises, the 200 body carries 'error', or the body does not parse
AttemptException(cause) ==
    /\ cause \in ExceptionCauses
    /\ FailedAttempt("exception", SleepOther)

\* embeddings_list.extend(batch_embs), and the loop steps to the next batch.
ExtendList ==
    /\ pc = "returned"
    /\ embeddings_list' = embeddings_list \o batch_embs
    /\ ok_log' = Append(ok_log, i)
    /\ i' = i + BATCH_SIZE
    /\ pc' = "loop"
    /\ batch_embs' = <<>>
    /\ attempt' = 0
    /\ reqs' = 0
    /\ waits' = <<>>
    /\ errs' = <<>>
    /\ UNCHANGED <<config, exc, failed_batches, failed_log, requested, total_requests,
                   embeddings_normalized>>

\* except Exception as e: print, failed_batches += 1, break when over the limit.
HandleFailure ==
    /\ pc = "raised"
    /\ failed_log' = LogFailure(failed_log, i)
    /\ failed_batches' = failed_batches + 1
    /\ IF TooManyFailures(failed_batches + 1)
         THEN pc' = "post" /\ i' = i
         ELSE pc' = "loop" /\ i' = i + BATCH_SIZE
    /\ exc' = "none"
    /\ attempt' = 0
    /\ reqs' = 0
    /\ waits' = <<>>
    /\ errs' = <<>>
    /\ UNCHANGED <<config, batch_embs, embeddings_list, ok_log, requested, total_requests,
                   embeddings_normalized>>

\* range(0, total_reviews, BATCH_SIZE) is exhausted.
LoopEnd ==
    /\ pc = "loop"
    /\ i >= total_reviews
    /\ pc' = "post"
    /\ UNCHANGED <<config, i, locals, exc, batch_embs, embeddings_list,
                   failed_batches, failed_log, ok_log, requested, total_requests,
                   embeddings_normalized>>

\* print("No embeddings generated."); exit(1)
ExitNoEmbeddings ==
    /\ pc = "post"
    /\ NoEmbeddingsGenerated
    /\ pc' = "exit1"
    /\ UNCHANGED <<config, i, locals, exc, batch_embs, embeddings_list,
                   failed_batches, failed_log, ok_log, requested, total_requests,
                   embeddings_normalized>>

\* np.array raises ValueError: the script dies with a traceback, nothing is saved.
ArrayError ==
    /\ pc = "post"
    /\ ~NoEmbeddingsGenerated
    /\ Ragged(embeddings_list)
    /\ pc' = "crashed"
    /\ UNCHANGED <<config, i, locals, exc, batch_embs, embeddings_list,
                   failed_batches, failed_log, ok_log, requested, total_requests,
                   embeddings_normalized>>

\* np.array, the L2 normalization and np.save.
NormalizeAndSave ==
    /\ pc = "post"
    /\ ~NoEmbeddingsGenerated
    /\ ~Ragged(embeddings_list)
    /\ embeddings_normalized' =
            [k \in 1..Len(embeddings_list) |-> NormalizedRow(embeddings_list[k])]
    /\ pc' = "done"
    /\ UNCHANGED <<config, i, locals, exc, batch_embs, embeddings_list,
                   failed_batches, failed_log, ok_log, requested, total_requests>>

\* A step of the script, the endpoint answering with components from vals.
Step(vals) ==
    \/ Dispatch
    \/ \E delta \in CountDeltas, x \in Embeddings(vals) : AttemptOk(delta, x)
    \/ AttemptRateLimited
    \/ AttemptStatusError
    \/ \E cause \in ExceptionCauses : AttemptException(cause)
    \/ ExtendList
    \/ HandleFailure
    \/ LoopEnd
    \/ ExitNoEmbeddings
    \/ ArrayError
    \/ NormalizeAndSave

Next == Step(PlainValues)

Spec == Init /\ [][Next]_vars

\* Runs whose requests are counted: few records, or a single attempt per batch.
\* requests.post(..., timeout=60) answers or raises and every sleep ends, so
\* the script always takes its next step.
InitCount ==
    /\ Start(TRUE)
    /\ (total_reviews <= MaxCountRecords \/ retries = 1)

SpecCount == InitCount /\ [][Next]_vars /\ WF_vars(Next)

\* Short runs with a single attempt per batch, the components varying.
InitNorm ==
    /\ Init
    /\ total_reviews <= MaxNormRecords
    /\ retries = 1

NextNorm == Step(Values)

SpecNorm == InitNorm /\ [][NextNorm]_vars

Terminal == {"done", "exit1", "crashed"}
AfterLoop == {"post"} \cup Terminal

(***************************************************************************)
(* Helpers of the claims.                                                  *)
(***************************************************************************)
AllOf(log, kind) == \A k \in 1..Len(log) : log[k] = kind

Transient == {"status", "exception"}

\* the records of the batch that starts at b
BatchRange(b) == b..(b + BatchLen(b) - 1)

\* the records of the batches of `log`, in the order of the log
RECURSIVE RecordsOf(_)
RecordsOf(log) ==
    IF log = <<>> THEN <<>>
    ELSE RecordsOf(SubSeq(log, 1, Len(log) - 1))
         \o [j \in 1..BatchLen(log[Len(log)]) |-> log[Len(log)] + j - 1]

EmbeddedRecords == {embeddings_list[k].rec : k \in 1..Len(embeddings_list)}
FailedRecords == UNION {BatchRange(failed_log[k]) : k \in 1..Len(failed_log)}

(***************************************************************************)
(* C1: a batch whose every attempt fails, whatever the mix of failures,    *)
(* has had exactly `retries` requests posted when get_embeddings gives up  *)
(* (never fewer, never more), and the driver counts a batch as failed only *)
(* from there, once.                                                       *)
(***************************************************************************)
C1_ExactlyRetriesRequests ==
    [][/\ pc = "attempt" => (reqs = Len(errs) /\ reqs < retries)
       /\ pc = "raised" => (reqs = retries /\ Len(errs) = retries)
       /\ failed_batches' # failed_batches =>
            /\ pc = "raised"
            /\ reqs = retries
            /\ failed_batches' = failed_batches + 1]_vars

C1_Witness ==
    /\ pc = "raised"
    /\ retries = 3
    /\ reqs = 3
    /\ errs = <<"rate_limit", "status", "exception">>

(***************************************************************************)
(* C2: once failed_batches exceeds the limit the loop is left: the script  *)
(* is past the loop, i still names the batch whose failure crossed the     *)
(* limit, and no request was posted for any later batch.                   *)
(***************************************************************************)
C2_NoDispatchAfterThreshold ==
    failed_batches > MAX_FAILED_BATCHES =>
        /\ pc \in AfterLoop
        /\ failed_batches = MAX_FAILED_BATCHES + 1
        /\ i = failed_log[Len(failed_log)]
        /\ \A b \in requested : b <= i

C2_Witness ==
    /\ failed_batches > MAX_FAILED_BATCHES
    /\ pc \in Terminal
    /\ i + BATCH_SIZE < total_reviews
    /\ (i + BATCH_SIZE) \notin requested

(***************************************************************************)
(* C3: a run whose failed-batch count exceeded the limit produces and      *)
(* saves no normalized array, even when earlier batches succeeded.         *)
(***************************************************************************)
C3_Original ==
    failed_batches > MAX_FAILED_BATCHES =>
        (pc # "done" /\ embeddings_normalized = <<>>)

(***************************************************************************)
(* C4: the vectors of embeddings_list are, position by position, the       *)
(* vectors of the records of the batches that succeeded, in record order.  *)
(***************************************************************************)
C4_Original ==
    [k \in 1..Len(embeddings_list) |-> embeddings_list[k].rec] = RecordsOf(ok_log)

(***************************************************************************)
(* C5: the sleep after a rate-limited attempt k (0-based) is 2^k; a batch  *)
(* rate-limited on all of 3 attempts has slept 1, 2, 4 in that order and   *)
(* is then given up.                                                       *)
(***************************************************************************)
C5_RateLimitBackoff ==
    /\ Len(waits) = Len(errs)
    /\ \A k \in 1..Len(errs) : errs[k] = "rate_limit" => waits[k] = Pow2(k - 1)
    /\ (retries = 3 /\ Len(errs) = 3 /\ AllOf(errs, "rate_limit")) =>
            (waits = <<1, 2, 4>> /\ pc = "raised" /\ exc # "none")

C5_Witness ==
    /\ retries = 3
    /\ errs = <<"rate_limit", "rate_limit", "rate_limit">>
    /\ waits = <<1, 2, 4>>
    /\ pc = "raised"

(***************************************************************************)
(* C6: an attempt that ends in a status error or an exception returns no   *)
(* vectors, uses up one attempt and one request, sleeps 2 whatever the     *)
(* attempt number, and leaves get_embeddings only when the budget is spent.*)
(***************************************************************************)
C6_TransientFailure ==
    [][(Len(errs') = Len(errs) + 1 /\ errs'[Len(errs')] \in Transient) =>
            /\ waits' = Append(waits, 2)
            /\ attempt' = attempt + 1
            /\ reqs' = reqs + 1
            /\ batch_embs' = <<>>
            /\ embeddings_list' = embeddings_list
            /\ failed_batches' = failed_batches
            /\ pc' = IF attempt' < retries THEN "attempt" ELSE "raised"
            /\ (exc' # "none") = (attempt' = retries)]_vars

C6_Witness ==
    /\ pc = "attempt"
    /\ retries = 3
    /\ errs = <<"rate_limit", "exception">>
    /\ waits = <<1, 2>>
    /\ attempt = 2

(***************************************************************************)
(* C7 as stated: when the budget is spent the driver is handed, without a  *)
(* raise, a failure that carries the last observed error.                  *)
(***************************************************************************)
C7_Original ==
    attempt = retries => (pc # "raised" /\ exc = lastErr)

(***************************************************************************)
(* C7 amended: when the budget is spent get_embeddings raises an exception *)
(* with the fixed message "Max retries reached", which is not the last     *)
(* observed error, and returns nothing; the exception lives only until the *)
(* driver's except clause has handled it.                                  *)
(***************************************************************************)
C7_RaisesFixedMessage ==
    /\ attempt = retries =>
            /\ pc = "raised"
            /\ exc = "Max retries reached"
            /\ lastErr \in Transient \cup {"rate_limit"}
            /\ batch_embs = <<>>
    /\ pc # "raised" => exc = "none"

C7_Witness ==
    /\ pc = "raised"
    /\ attempt = retries
    /\ lastErr = "status"
    /\ exc = "Max retries reached"

(***************************************************************************)
(* C8: when the script is past the loop with no vector assembled (every    *)
(* dispatched batch failed, or there was no record) it ends in exit(1),    *)
(* and nothing is normalized or saved.                                     *)
(***************************************************************************)
C8_NoEmbeddingsFatal ==
    (pc \in AfterLoop /\ Len(embeddings_list) = 0) =>
        (pc \in {"post", "exit1"} /\ embeddings_normalized = <<>>)

C8_Witness ==
    /\ pc = "exit1"
    /\ total_reviews > 0
    /\ i >= total_reviews
    /\ failed_batches > 1
    /\ embeddings_normalized = <<>>

(***************************************************************************)
(* C9: once embeddings_list holds vectors of two dimensionalities the run  *)
(* is aborted at that batch: get_embeddings is not entered again.          *)
(***************************************************************************)
C9_Original ==
    Ragged(embeddings_list) => pc \notin {"attempt", "returned", "raised"}

(***************************************************************************)
(* C10: at the end of a run that went through all batches, the records     *)
(* with a vector in embeddings_list and the records of the batches         *)
(* reported as failed are disjoint and together are all the records.       *)
(***************************************************************************)
C10_Original ==
    (pc \in Terminal /\ i >= total_reviews) =>
        /\ EmbeddedRecords \cap FailedRecords = {}
        /\ EmbeddedRecords \cup FailedRecords = 0..(total_reviews - 1)

(***************************************************************************)
(* More helpers of the claims.                                             *)
(***************************************************************************)
Increasing(log) == \A a, b \in 1..Len(log) : a < b => log[a] < log[b]
Elems(log) == {log[k] : k \in 1..Len(log)}

\* ceil(n / b)
CeilDiv(n, b) == (n + b - 1) \div b

\* the batches the loop is through with
BatchesBefore(start) == {b \in 0..(start - 1) : b % BATCH_SIZE = 0}

RECURSIVE SumLen(_)
SumLen(S) ==
    IF S = {} THEN 0
    ELSE LET b == CHOOSE x \in S : TRUE IN BatchLen(b) + SumLen(S \ {b})

C12_Original ==
    pc = "returned" =>
        /\ Len(batch_embs) = BatchLen(i)
        /\ \A j \in 1..Len(batch_embs) : batch_embs[j].rec = i + j - 1

(***************************************************************************)
(* C13: a run that goes through the whole loop dispatches ceil(N/B)        *)
(* batches, at the starts 0, B, 2B, ..., each of B records except the      *)
(* last, which has N mod B records (B when B divides N); the sizes add up  *)
(* to N; no record means no batch.                                         *)
(***************************************************************************)
C13_BatchPartition ==
    (pc \in AfterLoop /\ ~(failed_batches > MAX_FAILED_BATCHES)) =>
        /\ Cardinality(requested) = CeilDiv(total_reviews, BATCH_SIZE)
        /\ requested = {k * BATCH_SIZE : k \in 0..(CeilDiv(total_reviews, BATCH_SIZE) - 1)}
        /\ SumLen(requested) = total_reviews
        /\ \A b \in requested :
              BatchLen(b) =
                IF b + BATCH_SIZE < total_reviews THEN BATCH_SIZE
                ELSE IF total_reviews % BATCH_SIZE = 0 THEN BATCH_SIZE
                ELSE total_reviews % BATCH_SIZE
        /\ total_reviews = 0 => requested = {}

C13_Witness ==
    /\ pc \in Terminal
    /\ total_reviews = 5
    /\ BATCH_SIZE = 2
    /\ requested = {0, 2, 4}
    /\ failed_batches <= MAX_FAILED_BATCHES

(***************************************************************************)
(* C16: a failure that leaves failed_batches at or below the limit changes *)
(* nothing of what was assembled and puts the loop at the next batch,      *)
(* which, if there is one, is dispatched next.                             *)
(***************************************************************************)
C16_FailureDoesNotInterrupt ==
    [][/\ (failed_batches' # failed_batches /\ failed_batches' <= MAX_FAILED_BATCHES) =>
            /\ embeddings_list' = embeddings_list
            /\ ok_log' = ok_log
            /\ embeddings_normalized' = embeddings_normalized
            /\ pc' = "loop"
            /\ i' = i + BATCH_SIZE
       /\ (pc = "loop" /\ i < total_reviews) => (pc' = "attempt" /\ i' = i)]_vars

C16_Witness ==
    /\ pc = "attempt"
    /\ failed_log # <<>>
    /\ failed_log[Len(failed_log)] = i - BATCH_SIZE
    /\ failed_batches <= MAX_FAILED_BATCHES
    /\ Len(embeddings_list) > 0

(***************************************************************************)
(* C17: the exponent of the rate-limit sleep is the attempt index of the   *)
(* call, not the number of rate limits seen: after k attempts that failed  *)
(* otherwise (each sleeping 2) a rate-limited attempt k sleeps 2^k; the    *)
(* index starts at 0 again with every batch.                               *)
(***************************************************************************)
C17_ExponentIsAttemptIndex ==
    /\ pc \in {"attempt", "raised"} => attempt = Len(errs)
    /\ pc = "loop" => (attempt = 0 /\ errs = <<>>)
    /\ \A k \in 1..Len(errs) :
          (errs[k] = "rate_limit" /\ \A j \in 1..(k - 1) : errs[j] \in Transient) =>
              (waits[k] = Pow2(k - 1) /\ \A j \in 1..(k - 1) : waits[j] = 2)

C17_Witness ==
    /\ errs = <<"status", "exception", "rate_limit">>
    /\ waits = <<2, 2, 4>>
    /\ failed_batches > 0
    /\ ok_log # <<>>

(***************************************************************************)
(* C18: the attempt that gets vectors is the last of its call: nothing is  *)
(* requested or slept after it, the loop of get_embeddings is never        *)
(* running with vectors in hand, every batch is appended at most once and  *)
(* no batch is both appended and counted as failed.                        *)
(***************************************************************************)
C18_SuccessEndsRetries ==
    /\ pc = "returned" =>
            /\ reqs = Len(errs) + 1
            /\ Len(waits) = Len(errs)
            /\ reqs <= retries
            /\ exc = "none"
            /\ i \notin Elems(ok_log) \cup Elems(failed_log)
    /\ pc \in {"attempt", "raised"} => batch_embs = <<>>
    /\ Increasing(ok_log)
    /\ Elems(ok_log) \cap Elems(failed_log) = {}
    /\ \A b \in Elems(ok_log) : b < i

C18_Witness ==
    /\ pc = "returned"
    /\ retries = 3
    /\ errs = <<"rate_limit">>
    /\ reqs = 2
    /\ ok_log = <<0>>
    /\ failed_log = <<1>>
    /\ Len(batch_embs) > 0

(***************************************************************************)
(* Helpers of the numerical claims.                                        *)
(***************************************************************************)
AllZero(x) == \A j \in 1..Len(x) : x[j] = 0
Saved == {embeddings_normalized[k] : k \in 1..Len(embeddings_normalized)}

(***************************************************************************)
(* C14: no row is ever divided by zero, a row of zeros comes out as a row  *)
(* of zeros (0 over 1e-10), and a run of one record whose embedding is all *)
(* zeros ends with that row saved.                                         *)
(***************************************************************************)
C14_ZeroVectorSafe ==
    /\ \A v \in Saved :
          /\ v.den2 > 0
          /\ AllZero(v.num) => v.den2 = EPSILON * EPSILON
    /\ (/\ pc \in Terminal
        /\ total_reviews = 1
        /\ Len(embeddings_list) = 1
        /\ AllZero(embeddings_list[1].x)) =>
            /\ pc = "done"
            /\ Len(embeddings_normalized) = 1
            /\ AllZero(embeddings_normalized[1].num)
            /\ embeddings_normalized[1].den2 > 0

C14_Witness ==
    /\ pc = "done"
    /\ total_reviews = 1
    /\ embeddings_list = <<[rec |-> 0, dim |-> 2, x |-> <<0, 0>>]>>
    /\ embeddings_normalized =
          <<[rec |-> 0, dim |-> 2, num |-> <<0, 0>>, den2 |-> EPSILON * EPSILON]>>

(***************************************************************************)
(* C15 as stated: a row whose norm is at most 1e-10 is divided by 1e-10,   *)
(* a row whose norm is greater by its norm.                                *)
(***************************************************************************)
C15_Original ==
    \A v \in Saved :
        v.den2 = IF Norm2(v.num) <= EPSILON * EPSILON
                    THEN EPSILON * EPSILON ELSE Norm2(v.num)

(***************************************************************************)
(* C15 amended: only a row whose norm is exactly zero is divided by 1e-10; *)
(* every row whose norm is not zero, also one below 1e-10, is divided by   *)
(* its norm.                                                               *)
(***************************************************************************)
C15_OnlyZeroNormReplaced ==
    \A v \in Saved :
        /\ Norm2(v.num) = 0 => v.den2 = EPSILON * EPSILON
        /\ Norm2(v.num) # 0 => v.den2 = Norm2(v.num)

C15_Witness ==
    /\ pc = "done"
    /\ \E v \in Saved : Norm2(v.num) > 0 /\ Norm2(v.num) < EPSILON * EPSILON
    /\ \E v \in Saved : Norm2(v.num) > EPSILON * EPSILON

(***************************************************************************)
(* C19: whatever the endpoint answers, the run reaches a terminal outcome  *)
(* (saved, exit(1) or the uncaught ValueError), and it never posts more    *)
(* than ceil(N/B) * retries requests.                                      *)
(***************************************************************************)
C19_TerminatesWithinBudget ==
    /\ <>(pc \in Terminal)
    /\ [](total_requests <= CeilDiv(total_reviews, BATCH_SIZE) * retries)

C19_Witness ==
    /\ pc \in Terminal
    /\ retries = 3
    /\ total_reviews = 3
    /\ BATCH_SIZE = 1
    /\ total_requests = 9
====
